---------------------------- MODULE Spec2Model ----------------------------
(***************************************************************************)
(* Model of dependent_view: DependentRc<T> / DependentArc<T>, an owner     *)
(* holding one strong handle (item) plus a vector of type-erased strong    *)
(* handles (dependants), one per view issued by to_view! / to_view_sync!.  *)
(* Views are std Weak handles; upgrade() succeeds iff the strong count of  *)
(* the reference-counted allocation they point to is nonzero.              *)
(*                                                                         *)
(* One owner is followed through its life together with its callers: the   *)
(* holder of the owner (view issuance, access to the inner handle through  *)
(* Deref/DerefMut, drop, into), the holders of external strong handles and *)
(* the holders of views (upgrade, release of the upgraded handle, clone    *)
(* and drop of views). A view issuance is two steps, the clone of item and  *)
(* the push on dependants, with the other threads of DependentArc running  *)
(* in between. SpecRegistry follows the buffer of dependants through its   *)
(* growth, SpecDirect adds callers of the public into_view_internal, and   *)
(* SpecExample is the program of example_sync.rs: an owning thread that    *)
(* drops twenty owners, a viewer thread and the threads it spawns.         *)
(***************************************************************************)
EXTENDS Integers, Sequences, FiniteSets, TLC

\* ------------------------------------------------------------- bounds
MaxSlots == 2      \* reference-counted allocations the callers ever create
MaxViews == 2      \* views issued from the owner
MaxExt == 1        \* strong handles held by callers besides the owner's
MaxWeak == 2       \* Weak handles alive when a view is cloned
MaxPush == 5       \* views issued from the owner whose registry is followed
                   \* through the growth of its buffer
NumViewers == 1    \* components/threads that upgrade views

NoSlot == 0
Slots == 1..MaxSlots
Viewers == 1..NumViewers
Variants == {"rc", "arc"}

VARIABLES
    variant,      \* "rc": DependentRc (one thread), "arc": DependentArc
    strong,       \* strong count of each allocation
    weak,         \* number of Weak handles on each allocation
    destroyed,    \* how many times the value of each allocation was dropped
    nslots,       \* allocations created so far
    ownerState,   \* "live", "issuing", "dropping", "unwrapping", "dropped",
                  \* "unwrapped"
    item,         \* DependentRc.item: the allocation the owner's handle is on
    dependants,   \* DependentRc.dependants: the type-erased handles, in order
    shared,       \* the handle returned by into(), while the caller holds it
    ext,          \* other strong handles held by callers, per allocation
    views,        \* every view issued, in order: the allocation it is on
    minted,       \* per view: the owner's item when it was issued, and
                  \* whether the value implements the view's trait
    vec,          \* the buffer of dependants: its capacity and which
                  \* allocation it is (counted from the first one)
    refs,         \* the references push_ref has returned: buffer and index
    issueLimit,   \* how many views the holder issues at most
    vpc,          \* per viewer: "idle" or inside Arc's upgrade loop ("cas")
    vview,        \* per viewer: the view being upgraded
    vseen,        \* per viewer: the strong count its upgrade loop last read
    temp,         \* per viewer: the upgraded strong handle it holds
    everEmpty,    \* per view: has an upgrade() of it returned None
    someAfterEmpty,   \* an upgrade() returned Some on a view that had
                      \* returned None before
    someAfterExpiry,  \* an upgrade() returned Some after the value was dropped
    emptyBeforeExpiry, \* an upgrade() returned None before the value was
                       \* dropped
    \* example_sync.rs
    dancers,      \* the owners the owning thread still holds, as ids
    prancers,
    dance_refs,   \* the viewer thread's views of the dancers, as ids
    dstrong,      \* strong count of each dancer's allocation
    pstrong,      \* strong count of each prancer's allocation
    count,        \* owning thread: owners left to drop
    seed,         \* owning thread: the pseudo-random seed
    vphase,       \* viewer thread: "scan", "remove" or "done"
    spawned,      \* the views moved to a spawned thread that has not run yet
    panicked      \* an unwrap() of a spawned thread met None

vars == <<variant, strong, weak, destroyed, nslots, ownerState, item,
          dependants, shared, ext, views, minted, vec, refs, issueLimit,
          vpc, vview, vseen, temp,
          everEmpty, someAfterEmpty, someAfterExpiry, emptyBeforeExpiry,
          dancers, prancers, dance_refs, dstrong, pstrong, count, seed,
          vphase, spawned, panicked>>

exVars == <<dancers, prancers, dance_refs, dstrong, pstrong, count, seed,
            vphase, spawned, panicked>>
\* What no operation on the owner or on a view touches.
fixed == <<variant, issueLimit, exVars>>
\* What only a view issuance changes.
viewVars == <<views, minted, vec, refs>>

rcVars == <<strong, weak, destroyed, nslots>>
ownerVars == <<ownerState, item, dependants>>
observed == <<everEmpty, someAfterEmpty, someAfterExpiry, emptyBeforeExpiry>>
viewerVars == <<vpc, vview, vseen, temp, observed>>

\* ------------------------------------------- Rc / Arc reference counting
\* Rc::clone / Arc::clone: one more strong handle on allocation s.
IncStrong(st, s) == [st EXCEPT ![s] = @ + 1]

\* Drop of one strong handle on s: the count goes down by one ...
DecStrong(st, s) == [st EXCEPT ![s] = @ - 1]

\* Mutant: the value is kept while Weak handles remain.
DropValueUnlessWeak(d, st, s) ==
    IF st[s] = 1 /\ weak[s] = 0 THEN [d EXCEPT ![s] = @ + 1] ELSE d

\* ... and the value is dropped by the handle that takes the count to zero.
DropValue(d, st, s) == IF st[s] = 1 THEN [d EXCEPT ![s] = @ + 1] ELSE d

\* Rc::downgrade / Weak::clone: one more Weak handle, the strong count is
\* left alone.
downgrade(wk, s) == [wk EXCEPT ![s] = @ + 1]

\* Mutant: the last strong handle is not counted.
UpgradeOffByOne(n) == n > 1

\* Weak::upgrade on an allocation whose strong count reads n: None at zero.
UpgradeSucceeds(n) == n > 0

\* Strong handles on s held by somebody, counted where they are kept.
SumExt == LET RECURSIVE Sum(_)
              Sum(k) == IF k = 0 THEN 0 ELSE ext[k] + Sum(k - 1)
          IN Sum(MaxSlots)
SumWeak == LET RECURSIVE Sum(_)
               Sum(k) == IF k = 0 THEN 0 ELSE weak[k] + Sum(k - 1)
           IN Sum(MaxSlots)
RECURSIVE CountDeps(_, _)
CountDeps(deps, s) ==
    IF deps = <<>> THEN 0
    ELSE (IF Head(deps) = s THEN 1 ELSE 0) + CountDeps(Tail(deps), s)
TempsOn(s) == Cardinality({t \in Viewers : temp[t] = s})
\* The owner's handles on s: item, the entries of dependants, and the clone
\* an issuance in progress has made and not pushed yet.
OwnerHandles(s) ==
    (IF item = s THEN 1 ELSE 0) + CountDeps(dependants, s)
        + (IF ownerState = "issuing" /\ item = s THEN 1 ELSE 0)
CallerHandles(s) == (IF shared = s THEN 1 ELSE 0) + ext[s]
Handles(s) == OwnerHandles(s) + CallerHandles(s) + TempsOn(s)

\* ----------------------------------------------------------- the owner
\* push_ref: push the value, return a reference to the last element.
push_ref(items, value) == Append(items, value)

\* Vec::push on a full buffer (len = capacity) takes a larger one: the
\* capacity doubles, from the smallest nonzero capacity of a Vec of
\* pointer-sized elements.
MinNonZeroCap == 4
Max(a, b) == IF a >= b THEN a ELSE b
grow_amortized(cap, len) == Max(Max(2 * cap, len + 1), MinNonZeroCap)

TearingDown == ownerState \in {"dropping", "unwrapping"}
Issuing == ownerState = "issuing"
\* DependentRc stays on one thread: nothing runs inside its drop or inside
\* a view issuance. DependentArc: other threads run between the drops of
\* the fields and between the steps of an issuance.
MayRun == variant = "arc" \/ ~(TearingDown \/ Issuing)

\* DependentRc::new(item) / DependentRc::from(rc): the state after
\* construction. new wraps the value in a fresh Rc (strong count 1); from
\* takes an Rc of which the caller may hold further clones.
\* example_sync.rs: ten dancers and ten prancers, one view of each, then
\* the owners are moved to the owning thread and the views to the viewer
\* thread.
NumEach == 10
StartSeed == 13
SeedFactor == 29
SeedModulus == 71
Each == 1..NumEach
ExampleStart ==
    /\ dancers = [i \in Each |-> i]
    /\ prancers = [i \in Each |-> i]
    /\ dance_refs = [i \in Each |-> i]
    /\ dstrong = [i \in Each |-> 2]
    /\ pstrong = [i \in Each |-> 2]
    /\ count = NumEach + NumEach
    /\ seed = StartSeed
    /\ vphase = "scan"
    /\ spawned = {}
    /\ panicked = FALSE

InitOwner ==
    /\ variant \in Variants
    /\ \E e \in 0..MaxExt :
          /\ ext = [s \in Slots |-> IF s = 1 THEN e ELSE 0]
          /\ strong = [s \in Slots |-> IF s = 1 THEN 1 + e ELSE 0]
    /\ weak = [s \in Slots |-> 0]
    /\ destroyed = [s \in Slots |-> 0]
    /\ nslots = 1
    /\ ownerState = "live"
    /\ item = 1
    /\ dependants = <<>>
    /\ shared = NoSlot
    /\ views = <<>>
    /\ minted = <<>>
    /\ vec = [cap |-> 0, buf |-> 0]
    /\ refs = <<>>
    /\ vpc = [t \in Viewers |-> "idle"]
    /\ vview = [t \in Viewers |-> 0]
    /\ vseen = [t \in Viewers |-> 0]
    /\ temp = [t \in Viewers |-> NoSlot]
    /\ everEmpty = <<>>
    /\ someAfterEmpty = FALSE
    /\ someAfterExpiry = FALSE
    /\ emptyBeforeExpiry = FALSE

\* One owner and its callers alone: the example program is not there, its
\* vectors are empty and its threads have nothing to do.
NoExample ==
    /\ dancers = <<>> /\ prancers = <<>> /\ dance_refs = <<>>
    /\ dstrong = <<>> /\ pstrong = <<>>
    /\ count = 0 /\ seed = StartSeed
    /\ vphase = "done" /\ spawned = {} /\ panicked = FALSE

Init == InitOwner /\ issueLimit = MaxViews /\ NoExample

\* to_view!(owner) / to_view_sync!(owner) -> into_view_internal(&mut self,
\* conversion, downgrade, to_any), first half: conversion clones item as
\* Rc<Trait> and to_any transmutes the clone to Rc<Any>. The trait is a type
\* argument checked by the compiler: the erased handle is the same for
\* every trait. The call holds the exclusive borrow of the owner until it
\* returns.
conversion ==
    /\ ownerState = "live"
    /\ Len(views) < issueLimit
    /\ strong' = IncStrong(strong, item)
    /\ ownerState' = "issuing"
    /\ UNCHANGED <<fixed, weak, destroyed, nslots, item, dependants, shared,
                   ext, viewVars, viewerVars>>

\* Mutant: the reference is taken before the push, into the buffer in use
\* until then.
vec_push_stale ==
    \E moved \in BOOLEAN :
        LET full == Len(dependants) = vec.cap
            buf == IF moved THEN vec.buf + 1 ELSE vec.buf
        IN /\ moved => full
           /\ full /\ vec.cap = 0 => moved
           /\ vec' = [cap |-> IF full
                              THEN grow_amortized(vec.cap, Len(dependants))
                              ELSE vec.cap,
                      buf |-> buf]
           /\ refs' = Append(refs, [buf |-> vec.buf,
                                    idx |-> Len(dependants) + 1])

\* Vec::push as push_ref sees it: a full buffer is replaced by a larger one,
\* which the allocator may or may not place elsewhere (the first buffer is
\* always new); the reference returned points into the buffer now in use.
vec_push ==
    \E moved \in BOOLEAN :
        LET full == Len(dependants) = vec.cap
            buf == IF moved THEN vec.buf + 1 ELSE vec.buf
        IN /\ moved => full
           /\ full /\ vec.cap = 0 => moved
           /\ vec' = [cap |-> IF full
                              THEN grow_amortized(vec.cap, Len(dependants))
                              ELSE vec.cap,
                      buf |-> buf]
           /\ refs' = Append(refs, [buf |-> buf,
                                    idx |-> Len(dependants) + 1])

\* into_view_internal, second half: the erased handle is pushed on
\* dependants, the pushed handle is downgraded and the Weak returned.
into_view_internal ==
    /\ ownerState = "issuing"
    /\ dependants' = push_ref(dependants, item)
    /\ vec_push
    /\ weak' = downgrade(weak, item)
    /\ views' = Append(views, item)
    /\ minted' = Append(minted, [item |-> item, implemented |-> TRUE])
    /\ everEmpty' = Append(everEmpty, FALSE)
    /\ ownerState' = "live"
    /\ UNCHANGED <<fixed, strong, destroyed, nslots, item, shared, ext,
                   vpc, vview, vseen, temp, someAfterEmpty, someAfterExpiry,
                   emptyBeforeExpiry>>

\* into_view_internal is pub (unsafe, #[doc(hidden)]) and takes the three
\* closures from its caller. Called directly, conversion may return any
\* Rc the caller can clone (one on another allocation s), and may produce
\* its trait object by transmute, for a trait the value does not implement
\* (~impl). The closures of to_view! are the case above.
into_view_internal_direct(s, impl) ==
    /\ ownerState = "live"
    /\ Len(views) < issueLimit
    /\ s = item \/ ext[s] > 0
    /\ ~(s = item /\ impl)
    /\ strong' = IncStrong(strong, s)
    /\ dependants' = push_ref(dependants, s)
    /\ vec_push
    /\ weak' = downgrade(weak, s)
    /\ views' = Append(views, s)
    /\ minted' = Append(minted, [item |-> item, implemented |-> impl])
    /\ everEmpty' = Append(everEmpty, FALSE)
    /\ UNCHANGED <<fixed, destroyed, nslots, ownerState, item, shared, ext,
                   vpc, vview, vseen, temp, someAfterEmpty, someAfterExpiry,
                   emptyBeforeExpiry>>

\* Deref: Rc::clone(&*owner), the caller keeps a strong handle of its own.
deref_clone ==
    /\ ownerState = "live"
    /\ SumExt < MaxExt
    /\ strong' = IncStrong(strong, item)
    /\ ext' = [ext EXCEPT ![item] = @ + 1]
    /\ UNCHANGED <<fixed, weak, destroyed, nslots, ownerVars, shared, viewVars,
                   viewerVars>>

\* Mutant: the handle is not checked for being the only one.
get_mut_unchecked == strong[item] >= 1

\* DerefMut / AsMut hand out &mut Rc<T>; Rc::get_mut / Arc::get_mut on it
\* gives &mut T only to a unique handle: strong count 1 and no Weak.
get_mut == strong[item] = 1 /\ weak[item] = 0

\* DerefMut / AsMut hand out &mut Rc<T>: the caller installs another
\* handle, *owner = Rc::new(v) (the old handle is dropped) or
\* mem::replace(&mut *owner, Rc::new(v)) (the caller keeps the old handle).
deref_mut_replace(keepOld) ==
    /\ ownerState = "live"
    /\ nslots < MaxSlots
    /\ keepOld => SumExt < MaxExt
    /\ LET old == item
           new == nslots + 1
       IN /\ nslots' = new
          /\ item' = new
          /\ IF keepOld
             THEN /\ strong' = [strong EXCEPT ![new] = 1]
                  /\ ext' = [ext EXCEPT ![old] = @ + 1]
                  /\ destroyed' = destroyed
             ELSE /\ strong' = [DecStrong(strong, old) EXCEPT ![new] = 1]
                  /\ destroyed' = DropValue(destroyed, strong, old)
                  /\ ext' = ext
    /\ UNCHANGED <<fixed, weak, ownerState, dependants, shared, viewVars,
                   viewerVars>>

\* Mutant: the owner is dropped while a view issuance still holds it.
drop_while_borrowed ==
    /\ ownerState \in {"live", "issuing"}
    /\ strong' = DecStrong(strong, item)
    /\ destroyed' = DropValue(destroyed, strong, item)
    /\ item' = NoSlot
    /\ ownerState' = IF dependants = <<>> THEN "dropped" ELSE "dropping"
    /\ UNCHANGED <<fixed, weak, nslots, dependants, shared, ext, viewVars,
                   viewerVars>>

\* drop(owner): the fields are dropped in declaration order, item first.
\* drop takes the owner by value: no borrow of it is outstanding.
drop ==
    /\ ownerState = "live"
    /\ strong' = DecStrong(strong, item)
    /\ destroyed' = DropValue(destroyed, strong, item)
    /\ item' = NoSlot
    /\ ownerState' = IF dependants = <<>> THEN "dropped" ELSE "dropping"
    /\ UNCHANGED <<fixed, weak, nslots, dependants, shared, ext, viewVars,
                   viewerVars>>

\* Mutant: item is moved out and the rest of the owner is forgotten
\* instead of dropped.
into_forgets_registry ==
    /\ ownerState = "live"
    /\ shared' = item
    /\ item' = NoSlot
    /\ ownerState' = "unwrapped"
    /\ UNCHANGED <<fixed, rcVars, dependants, ext, viewVars, viewerVars>>

\* Into<Rc<T>>::into(self): self.item is moved out and returned, the rest
\* of self (dependants) is dropped.
into ==
    /\ ownerState = "live"
    /\ shared' = item
    /\ item' = NoSlot
    /\ ownerState' = IF dependants = <<>> THEN "unwrapped" ELSE "unwrapping"
    /\ UNCHANGED <<fixed, rcVars, dependants, ext, viewVars, viewerVars>>

\* Mutant: the type-erased entries go without releasing their handle.
drop_dependant_leak ==
    /\ TearingDown
    /\ dependants # <<>>
    /\ dependants' = Tail(dependants)
    /\ ownerState' = IF Tail(dependants) # <<>> THEN ownerState
                     ELSE IF ownerState = "dropping" THEN "dropped"
                     ELSE "unwrapped"
    /\ UNCHANGED <<fixed, rcVars, item, shared, ext, viewVars, viewerVars>>

\* Mutant: the erased entry is released as if it owned the value alone:
\* the value is dropped without looking at the count.
drop_dependant_as_box ==
    /\ TearingDown
    /\ dependants # <<>>
    /\ LET s == Head(dependants)
       IN /\ strong' = DecStrong(strong, s)
          /\ destroyed' = [destroyed EXCEPT ![s] = @ + 1]
    /\ dependants' = Tail(dependants)
    /\ ownerState' = IF Tail(dependants) # <<>> THEN ownerState
                     ELSE IF ownerState = "dropping" THEN "dropped"
                     ELSE "unwrapped"
    /\ UNCHANGED <<fixed, weak, nslots, item, shared, ext, viewVars,
                   viewerVars>>

\* Drop of Vec<Rc<Any>>: the elements are dropped front to back. An entry
\* is an Rc<Trait> transmuted to Rc<Any>; its drop goes through the
\* reference count of the allocation and the drop glue of the value.
drop_dependant ==
    /\ TearingDown
    /\ dependants # <<>>
    /\ LET s == Head(dependants)
       IN /\ strong' = DecStrong(strong, s)
          /\ destroyed' = DropValue(destroyed, strong, s)
    /\ dependants' = Tail(dependants)
    /\ ownerState' = IF Tail(dependants) # <<>> THEN ownerState
                     ELSE IF ownerState = "dropping" THEN "dropped"
                     ELSE "unwrapped"
    /\ UNCHANGED <<fixed, weak, nslots, item, shared, ext, viewVars, viewerVars>>

\* ---------------------------------------------------------- the callers
\* The caller drops the Rc that into() returned.
drop_shared ==
    /\ MayRun
    /\ shared # NoSlot
    /\ strong' = DecStrong(strong, shared)
    /\ destroyed' = DropValue(destroyed, strong, shared)
    /\ shared' = NoSlot
    /\ UNCHANGED <<fixed, weak, nslots, ownerVars, ext, viewVars, viewerVars>>

\* A caller drops a strong handle of its own.
drop_ext(s) ==
    /\ MayRun
    /\ ext[s] > 0
    /\ strong' = DecStrong(strong, s)
    /\ destroyed' = DropValue(destroyed, strong, s)
    /\ ext' = [ext EXCEPT ![s] = @ - 1]
    /\ UNCHANGED <<fixed, weak, nslots, ownerVars, shared, viewVars, viewerVars>>

\* A view can be used while a Weak handle of it is held.
Held(i) == weak[views[i]] > 0

\* Mutant: cloning a view clones a strong handle with it.
clone_view_takes_strong(i) ==
    /\ MayRun
    /\ Held(i)
    /\ SumWeak < MaxWeak
    /\ weak' = downgrade(weak, views[i])
    /\ strong' = IncStrong(strong, views[i])
    /\ UNCHANGED <<fixed, destroyed, nslots, ownerVars, shared, ext,
                   viewVars, viewerVars>>

\* Weak::clone of view i.
clone_view(i) ==
    /\ MayRun
    /\ Held(i)
    /\ SumWeak < MaxWeak
    /\ weak' = downgrade(weak, views[i])
    /\ UNCHANGED <<fixed, strong, destroyed, nslots, ownerVars, shared, ext,
                   viewVars, viewerVars>>

\* Mutant: dropping a view also takes its entry out of the registry.
drop_view_shrinks(i) ==
    /\ MayRun
    /\ Held(i)
    /\ weak' = [weak EXCEPT ![views[i]] = @ - 1]
    /\ IF i <= Len(dependants)
       THEN /\ dependants' = SubSeq(dependants, 1, i - 1)
                                \o SubSeq(dependants, i + 1, Len(dependants))
            /\ strong' = DecStrong(strong, dependants[i])
            /\ destroyed' = DropValue(destroyed, strong, dependants[i])
       ELSE UNCHANGED <<dependants, strong, destroyed>>
    /\ UNCHANGED <<fixed, nslots, ownerState, item, shared, ext, viewVars,
                   viewerVars>>

\* Drop of one Weak handle of view i (dance_refs.remove(0) and the end of
\* the thread it is moved to).
drop_view(i) ==
    /\ MayRun
    /\ Held(i)
    /\ \A t \in Viewers : vpc[t] = "cas" /\ views[vview[t]] = views[i]
                               => weak[views[i]] > 1
    /\ weak' = [weak EXCEPT ![views[i]] = @ - 1]
    /\ UNCHANGED <<fixed, strong, destroyed, nslots, ownerVars, shared, ext,
                   viewVars, viewerVars>>

\* Viewer t is free to start an upgrade; the free viewers are
\* interchangeable, the first of them takes the call.
Free(t) == vpc[t] = "idle" /\ temp[t] = NoSlot
Takes(t) == Free(t) /\ \A u \in Viewers : u < t => ~Free(u)

\* upgrade() returned on viewer t for view i: Some(handle on s) or None.
Returned(t, i, some) ==
    /\ vpc' = [vpc EXCEPT ![t] = "idle"]
    /\ vview' = [vview EXCEPT ![t] = 0]
    /\ vseen' = [vseen EXCEPT ![t] = 0]
    /\ temp' = [temp EXCEPT ![t] = IF some THEN views[i] ELSE NoSlot]
    /\ everEmpty' = [everEmpty EXCEPT ![i] = @ \/ ~some]
    /\ someAfterEmpty' = (someAfterEmpty \/ (some /\ everEmpty[i]))
    /\ someAfterExpiry' =
           (someAfterExpiry \/ (some /\ destroyed[views[i]] > 0))
    /\ emptyBeforeExpiry' =
           (emptyBeforeExpiry \/ (~some /\ destroyed[views[i]] = 0))

\* Mutant: an upgrade() that finds the value gone also gives up its Weak
\* handle.
rc_upgrade_drops_expired(t, i) ==
    /\ variant = "rc"
    /\ MayRun
    /\ Takes(t)
    /\ Held(i)
    /\ LET s == views[i]
       IN IF UpgradeSucceeds(strong[s])
          THEN /\ strong' = IncStrong(strong, s)
               /\ weak' = weak
               /\ Returned(t, i, TRUE)
          ELSE /\ strong' = strong
               /\ weak' = [weak EXCEPT ![s] = @ - 1]
               /\ Returned(t, i, FALSE)
    /\ UNCHANGED <<fixed, destroyed, nslots, ownerVars, shared, ext, viewVars>>

\* rc::Weak::upgrade: None at strong count zero, else one more handle.
rc_upgrade(t, i) ==
    /\ variant = "rc"
    /\ MayRun
    /\ Takes(t)
    /\ Held(i)
    /\ LET s == views[i]
       IN IF UpgradeSucceeds(strong[s])
          THEN /\ strong' = IncStrong(strong, s)
               /\ Returned(t, i, TRUE)
          ELSE /\ strong' = strong
               /\ Returned(t, i, FALSE)
    /\ UNCHANGED <<fixed, weak, destroyed, nslots, ownerVars, shared, ext, viewVars>>

\* sync::Weak::upgrade, first read of the strong count: None at zero,
\* else on to the compare-and-swap.
arc_upgrade_load(t, i) ==
    /\ variant = "arc"
    /\ Takes(t)
    /\ Held(i)
    /\ LET n == strong[views[i]]
       IN IF UpgradeSucceeds(n)
          THEN /\ vpc' = [vpc EXCEPT ![t] = "cas"]
               /\ vview' = [vview EXCEPT ![t] = i]
               /\ vseen' = [vseen EXCEPT ![t] = n]
               /\ UNCHANGED <<temp, observed>>
          ELSE Returned(t, i, FALSE)
    /\ UNCHANGED <<fixed, rcVars, ownerVars, shared, ext, viewVars>>

\* Mutant: the count is incremented without comparing.
CasBlind(seen, now) == TRUE

\* The compare-and-swap of the loop: n -> n + 1 if the count still reads n.
CasSucceeds(seen, now) == seen = now

\* Mutant: a failed compare-and-swap gives up with None instead of
\* trying again.
arc_upgrade_cas_no_retry(t) ==
    /\ variant = "arc"
    /\ vpc[t] = "cas"
    /\ LET i == vview[t]
           s == views[i]
       IN IF vseen[t] = strong[s]
          THEN /\ strong' = IncStrong(strong, s)
               /\ Returned(t, i, TRUE)
          ELSE /\ strong' = strong
               /\ Returned(t, i, FALSE)
    /\ UNCHANGED <<fixed, weak, destroyed, nslots, ownerVars, shared, ext, viewVars>>

\* sync::Weak::upgrade, the compare-and-swap: Some on success; on failure
\* the count just read is tried next, None if it reads zero.
arc_upgrade_cas(t) ==
    /\ variant = "arc"
    /\ vpc[t] = "cas"
    /\ LET i == vview[t]
           s == views[i]
       IN IF CasSucceeds(vseen[t], strong[s])
          THEN /\ strong' = IncStrong(strong, s)
               /\ Returned(t, i, TRUE)
          ELSE /\ strong' = strong
               /\ IF UpgradeSucceeds(strong[s])
                  THEN /\ vseen' = [vseen EXCEPT ![t] = strong[s]]
                       /\ UNCHANGED <<vpc, vview, temp, observed>>
                  ELSE Returned(t, i, FALSE)
    /\ UNCHANGED <<fixed, weak, destroyed, nslots, ownerVars, shared, ext, viewVars>>

\* The upgraded handle goes out of scope (end of the if-let block).
drop_temp(t) ==
    /\ MayRun
    /\ temp[t] # NoSlot
    /\ strong' = DecStrong(strong, temp[t])
    /\ destroyed' = DropValue(destroyed, strong, temp[t])
    /\ temp' = [temp EXCEPT ![t] = NoSlot]
    /\ UNCHANGED <<fixed, weak, nslots, ownerVars, shared, ext, viewVars,
                   vpc, vview, vseen, observed>>

Next ==
    \/ conversion
    \/ into_view_internal
    \/ deref_clone
    \/ \E keepOld \in BOOLEAN : deref_mut_replace(keepOld)
    \/ drop
    \/ into
    \/ drop_dependant
    \/ drop_shared
    \/ \E s \in Slots : drop_ext(s)
    \/ \E t \in Viewers, i \in 1..Len(views) : rc_upgrade(t, i)
    \/ \E t \in Viewers, i \in 1..Len(views) : arc_upgrade_load(t, i)
    \/ \E t \in Viewers : arc_upgrade_cas(t)
    \/ \E t \in Viewers : drop_temp(t)

Spec == Init /\ [][Next]_vars

\* The same with holders that also clone and drop their views, for
\* DependentRc.
InitRc == Init /\ variant = "rc"

NextViews ==
    \/ conversion
    \/ into_view_internal
    \/ deref_clone
    \/ \E keepOld \in BOOLEAN : deref_mut_replace(keepOld)
    \/ drop
    \/ into
    \/ drop_dependant
    \/ drop_shared
    \/ \E s \in Slots : drop_ext(s)
    \/ \E i \in 1..Len(views) : clone_view(i)
    \/ \E i \in 1..Len(views) : drop_view(i)
    \/ \E t \in Viewers, i \in 1..Len(views) : rc_upgrade(t, i)
    \/ \E t \in Viewers : drop_temp(t)

SpecViews == InitRc /\ [][NextViews]_vars

\* One DependentRc made by new(), with a holder that issues enough views
\* for the registry to outgrow its first buffer.
InitRegistry ==
    /\ InitOwner /\ variant = "rc" /\ ext[1] = 0
    /\ issueLimit = MaxPush
    /\ NoExample

NextRegistry ==
    \/ conversion
    \/ into_view_internal
    \/ deref_clone
    \/ drop
    \/ into
    \/ drop_dependant
    \/ drop_shared
    \/ \E s \in Slots : drop_ext(s)
    \/ \E t \in Viewers, i \in 1..Len(views) : rc_upgrade(t, i)
    \/ \E t \in Viewers : drop_temp(t)

SpecRegistry == InitRegistry /\ [][NextRegistry]_vars

\* ------------------------------------------------------ example_sync.rs
\* Vec::swap_remove(i), i counted from 1 here: the last element takes the
\* place of the removed one.
swap_remove(v, i) ==
    IF i = Len(v) THEN SubSeq(v, 1, Len(v) - 1)
    ELSE SubSeq([v EXCEPT ![i] = v[Len(v)]], 1, Len(v) - 1)

\* Drop of a DependentArc with one view: item and the one entry of
\* dependants are released.
drop_owner(st, o) == DecStrong(DecStrong(st, o), o)

\* What the example's threads do not touch: the owner followed on its own.
ownerSide == <<strong, weak, destroyed, nslots, ownerVars, shared, ext,
               viewVars, viewerVars>>

\* Owning thread, one turn of its while loop: the next seed picks a
\* prancer or a dancer, swap_remove takes the owner out of its vector and
\* drops it.
h1_drop ==
    /\ count > 0
    /\ LET next == (seed * SeedFactor) % SeedModulus
       IN /\ seed' = next
          /\ IF (next > Len(dancers) /\ Len(prancers) > 0) \/ Len(dancers) = 0
             THEN LET i == ((next - Len(dancers)) % Len(prancers)) + 1
                  IN /\ prancers' = swap_remove(prancers, i)
                     /\ pstrong' = drop_owner(pstrong, prancers[i])
                     /\ UNCHANGED <<dancers, dstrong>>
             ELSE LET i == (next % Len(dancers)) + 1
                  IN /\ dancers' = swap_remove(dancers, i)
                     /\ dstrong' = drop_owner(dstrong, dancers[i])
                     /\ UNCHANGED <<prancers, pstrong>>
    /\ count' = count - 1
    /\ UNCHANGED <<variant, issueLimit, ownerSide, dance_refs, vphase,
                   spawned, panicked>>

\* Viewer thread, the for loop over dance_refs zipped with prance_refs
\* (prance_refs[j] is the view of prancer j, none is ever removed): every
\* view is upgraded, used and the handle released; the loop ends the
\* thread when no upgrade succeeded.
Upgraded ==
    LET n == Len(dance_refs)
    IN Cardinality({j \in 1..n : UpgradeSucceeds(dstrong[dance_refs[j]])})
           + Cardinality({j \in 1..n : UpgradeSucceeds(pstrong[j])})
h2_scan ==
    /\ vphase = "scan"
    /\ vphase' = IF Upgraded = 0 THEN "done" ELSE "remove"
    /\ UNCHANGED <<variant, issueLimit, ownerSide, dancers, prancers,
                   dance_refs, dstrong, pstrong, count, seed, spawned,
                   panicked>>

\* Viewer thread: dance_refs.remove(0), the view is moved to a new thread.
h2_spawn ==
    /\ vphase = "remove"
    /\ dance_refs' = Tail(dance_refs)
    /\ spawned' = spawned \cup {Head(dance_refs)}
    /\ vphase' = "scan"
    /\ UNCHANGED <<variant, issueLimit, ownerSide, dancers, prancers,
                   dstrong, pstrong, count, seed, panicked>>

\* A spawned thread: dref.upgrade().unwrap().dance(), then the handle and
\* the view are dropped; unwrap panics on None.
spawned_upgrade(d) ==
    /\ d \in spawned
    /\ spawned' = spawned \ {d}
    /\ panicked' = (panicked \/ ~UpgradeSucceeds(dstrong[d]))
    /\ UNCHANGED <<variant, issueLimit, ownerSide, dancers, prancers,
                   dance_refs, dstrong, pstrong, count, seed, vphase>>

InitExample ==
    /\ InitOwner /\ variant = "arc" /\ ext[1] = 0
    /\ issueLimit = MaxViews
    /\ ExampleStart

NextExample ==
    \/ h1_drop
    \/ h2_scan
    \/ h2_spawn
    \/ \E d \in Each : spawned_upgrade(d)

SpecExample == InitExample /\ [][NextExample]_vars

\* The same as Spec with callers that also call into_view_internal
\* themselves instead of going through the macro.
NextDirect ==
    \/ Next
    \/ \E s \in Slots, impl \in BOOLEAN : into_view_internal_direct(s, impl)

SpecDirect == Init /\ [][NextDirect]_vars

\* --------------------------------------------------------- vocabulary
ViewIds == 1..Len(views)
Allocated == 1..nslots

\* What upgrade() of view i returns in this state: Some iff TRUE.
Resolvable(i) == UpgradeSucceeds(strong[views[i]])

\* No strong handle on s is held outside the owner: none kept by a caller,
\* none returned by into(), no upgraded handle still in scope.
NoOtherStrong(s) == CallerHandles(s) = 0 /\ TempsOn(s) = 0

\* The start of upgrade() of view i by viewer t, in either variant.
upgrade(t, i) == rc_upgrade(t, i) \/ arc_upgrade_load(t, i)

\* ------------------------------------------------------------- claims

\* C1: after the owner is destroyed and no other strong handle to the value
\* survives, upgrade() of every view the owner issued returns None, and
\* that stays so: from such a state no step makes the view resolvable or
\* brings a strong handle back.
Expired1(i) == ownerState = "dropped" /\ NoOtherStrong(views[i])
C1_ExpiredAfterDrop ==
    [][\A i \in ViewIds :
          /\ Expired1(i)' => ~Resolvable(i)'
          /\ Expired1(i) => Expired1(i)' /\ ~Resolvable(i)']_vars

C1_Witness ==
    /\ ownerState = "dropped"
    /\ ViewIds # {}
    /\ \A i \in ViewIds : Expired1(i) /\ everEmpty[i]

\* C2 (as claimed): while the owner is alive every view it issued resolves
\* and all of them resolve to the same value instance, whatever the holder
\* did through Deref/DerefMut/AsMut.
C2_AsClaimed ==
    ownerState = "live" =>
        \A i, j \in ViewIds :
            Resolvable(i) /\ Resolvable(j) /\ views[i] = views[j]

\* C3 (as claimed): once drop(owner) has completed, upgrade() of every view
\* obtained from it returns None, however the owner was constructed and
\* whatever the caller did with the inner handle.
C3_AsClaimed ==
    ownerState = "dropped" => \A i \in ViewIds : ~Resolvable(i)

\* C4 (as claimed): once into() has returned the inner Rc/Arc, upgrade() of
\* every view constructed from the owner returns None.
C4_AsClaimed ==
    ownerState = "unwrapped" => \A i \in ViewIds : ~Resolvable(i)

C6_ExpiryOneWay ==
    /\ ~someAfterEmpty
    /\ \A i \in ViewIds : everEmpty[i] => ~Resolvable(i)

C6_Witness ==
    /\ nslots > 1
    /\ \E i \in ViewIds : everEmpty[i]
    /\ \E i \in ViewIds : Resolvable(i)

\* C7: an upgrade() racing with the release of the last strong handle
\* either returns a handle on a value that is not destroyed, and stays
\* undestroyed while the handle is held, or returns None: no upgraded
\* handle is ever on a destroyed value.
C7_NoHandleOnDestroyed ==
    /\ ~someAfterExpiry
    /\ \A t \in Viewers :
          temp[t] # NoSlot => destroyed[temp[t]] = 0 /\ strong[temp[t]] > 0

\* The race: a viewer read a nonzero count, and the last strong handle was
\* released before its compare-and-swap.
C7_Witness ==
    /\ variant = "arc"
    /\ \E t \in Viewers :
          /\ vpc[t] = "cas"
          /\ vseen[t] > 0
          /\ strong[views[vview[t]]] = 0
          /\ destroyed[views[vview[t]]] = 1

\* C8: with a thread upgrading a view while another drops the owner, every
\* upgrade() ordered before the point where the last strong handle goes
\* (the value is dropped) returns Some, and every upgrade() ordered after
\* it returns None.
C8_OrderedAroundDrop == ~someAfterExpiry /\ ~emptyBeforeExpiry

\* The owner was dropped on its thread, nobody else held a strong handle,
\* and the viewer's upgrade() after that returned None.
C8_Witness ==
    /\ variant = "arc"
    /\ ownerState = "dropped"
    /\ nslots = 1 /\ ext[1] = 0
    /\ \E i \in ViewIds : everEmpty[i]

\* C9: a view can always be issued from a live owner, and while the owner
\* is live the registry holds exactly one entry per view issued so far, in
\* the order of issuance: no operation removes or replaces an entry, and
\* dropping a view does not shrink the registry.
C9_RegistryGrowsOnly ==
    ownerState = "live" =>
        /\ Len(dependants) = Len(views)
        /\ dependants = views
        /\ Len(views) < issueLimit => ENABLED conversion

\* Two views issued, one of them dropped since, both entries still there.
C9_Witness ==
    /\ ownerState = "live"
    /\ Len(views) = 2
    /\ Len(dependants) = 2
    /\ SumWeak = 1

\* C10 (as claimed): no use of a view keeps the value alive beyond the
\* release of the owner's own handle and of its registry entries: once
\* these are gone, and no caller holds a strong handle of its own, the
\* value is dropped, also while an upgraded handle is held.
OwnerReleased(s) == OwnerHandles(s) = 0 /\ CallerHandles(s) = 0
C11_AsClaimed ==
    \A i \in ViewIds : views[i] = minted[i].item /\ minted[i].implemented

\* C12 (as claimed): owner destruction is atomic for its callers: in no
\* state, also not in the middle of the teardown seen from another thread,
\* does one view of the owner resolve while another view of it does not.
C12_AsClaimed ==
    \A i, j \in ViewIds : Resolvable(i) <=> Resolvable(j)

\* C13: upgrade() has no side effect and is idempotent. A step in which an
\* upgrade() returns a handle adds one to the strong count of the view's
\* allocation and changes nothing else of the owner, the registry, the
\* views or the other handles; the step releasing that handle takes the
\* one back, so the count net of upgraded handles is the number of handles
\* held otherwise, as before the call; and an upgrade() of a view that has
\* returned None before returns None again and changes no state at all.
C13_StepsOfUpgrade ==
    \A t \in Viewers :
        /\ temp[t] = NoSlot /\ temp'[t] # NoSlot =>
              /\ strong' = IncStrong(strong, temp'[t])
              /\ UNCHANGED <<weak, destroyed, nslots, ownerVars, shared, ext,
                             viewVars>>
        /\ temp[t] # NoSlot /\ temp'[t] = NoSlot =>
              /\ strong' = DecStrong(strong, temp[t])
              /\ UNCHANGED <<weak, nslots, ownerVars, shared, ext, viewVars>>
C13_ExpiredUpgradeIdle ==
    \A t \in Viewers, i \in ViewIds :
        everEmpty[i] /\ MayRun /\ Takes(t) /\ Held(i) =>
            /\ ~Resolvable(i)
            /\ ENABLED upgrade(t, i)
            /\ ~ENABLED (upgrade(t, i) /\ vars' # vars)
C13_UpgradeSideEffectFree ==
    /\ [](\A s \in Allocated :
              strong[s] - TempsOn(s) = OwnerHandles(s) + CallerHandles(s))
    /\ []C13_ExpiredUpgradeIdle
    /\ [][C13_StepsOfUpgrade]_vars

\* One view has expired and an upgrade() of it has returned None, the
\* holder still has it; another view is upgraded and the handle held.
C13_Witness ==
    /\ \E i \in ViewIds : everEmpty[i] /\ Held(i)
    /\ \E t \in Viewers : temp[t] # NoSlot

\* C14 (as claimed): through DerefMut/AsMut the holder of a live owner gets
\* exclusive mutable access to the value (Rc::get_mut / Arc::get_mut
\* returns Some) at any time, before and after views have been issued,
\* here even granted that no caller holds a strong handle of its own.
C14_AsClaimed ==
    ownerState = "live" /\ CallerHandles(item) = 0 /\ TempsOn(item) = 0
        => get_mut

\* C14 (amended): get_mut through the owner returns Some exactly while the
\* owner's handle is the only handle on its allocation: no registry entry,
\* no handle held by a caller, no upgraded handle and no Weak on it. It
\* returns Some on a fresh owner without views, and None from the moment a
\* view is issued on the allocation, for as long as the owner keeps it.
C14_GetMutOnlyWhenUnique ==
    ownerState = "live" =>
        /\ get_mut <=> /\ CountDeps(dependants, item) = 0
                       /\ CallerHandles(item) = 0
                       /\ TempsOn(item) = 0
                       /\ weak[item] = 0
        /\ views = <<>> /\ ext[item] = 0 => get_mut
        /\ (\E i \in ViewIds : views[i] = item) => ~get_mut

\* A view was issued from an owner made by new(), nobody else holds a
\* handle, and get_mut returns None.
C14_Witness ==
    /\ ownerState = "live"
    /\ nslots = 1 /\ ext[item] = 0
    /\ \A t \in Viewers : temp[t] = NoSlot
    /\ views # <<>>
    /\ ~get_mut

\* C15: the views are independent of each other: a step that clones or
\* drops a view (the number of Weak handles changes, no view is issued)
\* leaves the registry, every strong count and every other handle as they
\* were, and every view of the owner resolves after the step iff it did
\* before.
C15_ViewsIndependent ==
    [][weak' # weak /\ views' = views =>
          /\ UNCHANGED <<strong, destroyed, nslots, ownerVars, shared, ext,
                         viewVars>>
          /\ \A j \in ViewIds : Resolvable(j)' <=> Resolvable(j)]_vars

\* Two views of one value, one of them dropped since; the owner is live,
\* the other view resolves and its upgraded handle is held.
C15_Witness ==
    /\ ownerState = "live"
    /\ nslots = 1
    /\ Len(views) = 2 /\ Len(dependants) = 2
    /\ weak[item] = 1
    /\ \A t \in Viewers : temp[t] # NoSlot
    /\ \A j \in ViewIds : Resolvable(j)

\* C16 (as claimed): while the owner is live the strong count of its
\* allocation is 1 + the length of the registry + the upgraded handles in
\* scope + the clones held by callers, and a view resolves iff that count
\* is nonzero.
C16_AsClaimed ==
    ownerState = "live" =>
        /\ strong[item] = 1 + Len(dependants) + TempsOn(item) + ext[item]
        /\ \A i \in ViewIds : Resolvable(i) <=> strong[item] > 0

\* The owner has its registry (it is not being torn down or gone).
HasRegistry == ownerState \in {"live", "issuing"}

\* C17 (as claimed): a reference returned by push_ref keeps designating
\* its entry for the rest of the registry's life: every reference ever
\* returned points into the buffer the registry uses now.
C17_AsClaimed ==
    HasRegistry => \A k \in 1..Len(refs) : refs[k].buf = vec.buf

\* C17 (amended): the reference returned by push_ref designates the entry
\* just pushed, in the buffer in use after the push; an append that finds
\* room leaves the buffer where it is, an append that finds it full may
\* move every entry. Issued views do not depend on it: an append, moving
\* or not, leaves each earlier entry and view on its allocation and as
\* resolvable as before.
C17_LastRefDesignates ==
    HasRegistry /\ refs # <<>> =>
        LET r == refs[Len(refs)]
        IN /\ r.buf = vec.buf
           /\ r.idx = Len(refs)
           /\ ownerState = "live" =>
                 r.idx = Len(dependants) /\ dependants[r.idx] = views[r.idx]
C17_StepOfAppend ==
    Len(refs') > Len(refs) =>
        /\ Len(dependants) < vec.cap => vec'.buf = vec.buf
        /\ \A k \in 1..Len(refs) :
              /\ refs'[k] = refs[k]
              /\ dependants'[k] = dependants[k]
              /\ views'[k] = views[k]
              /\ Resolvable(k)' <=> Resolvable(k)
C17_RefValidUntilGrowth ==
    []C17_LastRefDesignates /\ [][C17_StepOfAppend]_vars

\* The registry has outgrown its first buffer and moved: the first
\* reference returned points into the old buffer, and every view resolves.
C17_Witness ==
    /\ ownerState = "live"
    /\ Len(refs) = MaxPush
    /\ refs[1].buf # vec.buf
    /\ \A i \in ViewIds : Resolvable(i)

\* C18: registry growth is serialized. into_view_internal_sync borrows the
\* owner exclusively (&mut self) and drop/into take it by value, so an
\* append is always the completion of the one issuance in progress on an
\* owner that is not being torn down; while an issuance is in progress
\* (other threads may upgrade and release meanwhile) no second issuance,
\* handle replacement, drop or into of the owner takes a step; and no
\* issuance begins or appends during a teardown.
C18_StepOfOwner ==
    /\ Len(dependants') > Len(dependants) =>
          /\ ownerState = "issuing" /\ ownerState' = "live"
          /\ dependants' = Append(dependants, item)
    /\ ownerState = "issuing" =>
          /\ ownerState' \in {"issuing", "live"}
          /\ item' = item /\ shared' = shared /\ nslots' = nslots
          /\ ownerState' = "issuing" => dependants' = dependants
          /\ ownerState' = "live" => Len(dependants') = Len(dependants) + 1
    /\ ownerState' = "issuing" => ownerState \in {"live", "issuing"}
    /\ TearingDown =>
          /\ ownerState' # "issuing"
          /\ Len(dependants') <= Len(dependants)
C19_DroppedOnceAtZero ==
    \A s \in Allocated :
        /\ destroyed[s] <= 1
        /\ destroyed[s] = 1 <=> strong[s] = 0
        /\ Handles(s) > 0 => destroyed[s] = 0
C19_StepOfRelease ==
    /\ Len(dependants') < Len(dependants) =>
          /\ dependants' = Tail(dependants)
          /\ strong' = DecStrong(strong, Head(dependants))
    /\ \A s \in Allocated :
          /\ destroyed'[s] # destroyed[s] =>
                strong[s] = 1 /\ strong'[s] = 0
                    /\ destroyed'[s] = destroyed[s] + 1
          /\ strong[s] = 1 /\ strong'[s] = 0 => destroyed'[s] = 1
C19_EntriesReleaseCorrectly ==
    []C19_DroppedOnceAtZero /\ [][C19_StepOfRelease]_vars

\* The owner was dropped with two views on two values, nothing else held
\* them: both entries are released and each value was dropped once.
C19_Witness ==
    /\ ownerState = "dropped"
    /\ nslots = 2 /\ Len(views) = 2 /\ views[1] # views[2]
    /\ \A s \in Allocated : destroyed[s] = 1 /\ strong[s] = 0

\* C20 (as claimed): in example_sync.rs no upgrade().unwrap() of a spawned
\* thread fails, under any interleaving of the owning thread, the viewer
\* thread and the spawned threads.
C20_AsClaimed == ~panicked

=============================================================================
